---- MODULE Spec2Model ----
(***************************************************************************)
(* uta.tools.transcriptmapper: TranscriptMapper and build_tx_cigar.        *)
(*                                                                         *)
(* Python strings are sequences of one-character strings, so that the      *)
(* regular expression \d+[DIMNX], str() and ''.join() are modelled by what *)
(* they do to the characters.  Python's None is modelled by a `none' flag  *)
(* of the value that may be None (tx_info, the exon list, a returned       *)
(* cigar), and by NoneStrand for a strand of None.                         *)
(***************************************************************************)
EXTENDS Integers, Sequences, FiniteSets, TLC

VARIABLES ac, ref, db_info, db_exons, tm, builds, last

vars == <<ac, ref, db_info, db_exons, tm, builds, last>>

\* ------------------------------------------------------------------ bounds
\* longest exon list the data provider returns
MaxExons == 2
\* number of build_tx_cigar calls made on the shared record list
MaxBuilds == 2

\* ----------------------------------------------------------------- strings
Digits == <<"0", "1", "2", "3", "4", "5", "6", "7", "8", "9">>

IsDigit(ch) == \E d \in 1..10 : Digits[d] = ch

IsOp(ch) == ch \in {"D", "I", "M", "N", "X"}

DigitVal(ch) == (CHOOSE d \in 1..10 : Digits[d] = ch) - 1

\* str(n) of a Python int
RECURSIVE StrNat(_)
StrNat(n) == IF n < 10 THEN <<Digits[n + 1]>>
             ELSE StrNat(n \div 10) \o <<Digits[(n % 10) + 1]>>

Str(n) == IF n < 0 THEN <<"-">> \o StrNat(0 - n) ELSE StrNat(n)

\* int(s) of a string of digits
RECURSIVE IntOf(_)
IntOf(s) == IF s = <<>> THEN 0
            ELSE 10 * IntOf(SubSeq(s, 1, Len(s) - 1)) + DigitVal(s[Len(s)])

\* ''.join(parts)
RECURSIVE Join(_)
Join(parts) == IF parts = <<>> THEN <<>> ELSE Head(parts) \o Join(Tail(parts))

\* reversed(seq)
Reversed(s) == [i \in 1..Len(s) |-> s[Len(s) + 1 - i]]

\* re.compile('\d+[DIMNX]').findall(c): the maximal digit runs that are
\* directly followed by an operation letter, left to right; every other
\* character is skipped.  cur is the digit run being read, acc the matches.
RECURSIVE FindAllFrom(_, _, _, _)
FindAllFrom(c, i, cur, acc) ==
    IF i > Len(c) THEN acc
    ELSE IF IsDigit(c[i]) THEN FindAllFrom(c, i + 1, Append(cur, c[i]), acc)
    ELSE IF IsOp(c[i]) /\ cur # <<>>
         THEN FindAllFrom(c, i + 1, <<>>, Append(acc, Append(cur, c[i])))
    ELSE FindAllFrom(c, i + 1, <<>>, acc)

cigarelem_re_findall(c) == FindAllFrom(c, 1, <<>>, <<>>)

\* ---------------------------------------------------------- build_tx_cigar
\* variant: the string is returned as it is
reverse_cigar_keep(c) == c

reverse_cigar(c) == Join(Reversed(cigarelem_re_findall(c)))

\* the records after the strand == -1 loop of build_tx_cigar
ReverseAll(exons) ==
    [i \in 1..Len(exons) |->
        [exons[i] EXCEPT !.g_cigar = reverse_cigar(exons[i].g_cigar)]]

\* tx_cigar list: exon 1, then intron + exon pairs
RECURSIVE TxCigarParts(_, _)
TxCigarParts(exons, n) ==
    IF n = 1 THEN <<exons[1].g_cigar>>
    ELSE TxCigarParts(exons, n - 1)
         \o << Str(exons[n].g_start_i - exons[n - 1].g_end_i) \o <<"N">>,
               exons[n].g_cigar >>

NoCigar == [none |-> TRUE, str |-> <<>>]

\* variant: the intron is measured from the previous exon's start
build_tx_cigar_gap_from_start(exons, strand) ==
    IF Len(exons) = 0 THEN [ret |-> NoCigar, exons |-> exons]
    ELSE LET ex == IF strand = -1 THEN ReverseAll(exons) ELSE exons
             shifted == [i \in 1..Len(ex) |->
                           IF i = Len(ex) THEN ex[i]
                           ELSE [ex[i] EXCEPT !.g_end_i = ex[i].g_start_i]]
         IN [ret |-> [none |-> FALSE,
                      str |-> Join(TxCigarParts(shifted, Len(shifted)))],
             exons |-> ex]

\* variant: the reversed strings are copies, the records are left alone
build_tx_cigar_on_copies(exons, strand) ==
    IF Len(exons) = 0 THEN [ret |-> NoCigar, exons |-> exons]
    ELSE LET ex == IF strand = -1 THEN ReverseAll(exons) ELSE exons
         IN [ret |-> [none |-> FALSE, str |-> Join(TxCigarParts(ex, Len(ex)))],
             exons |-> exons]

\* build_tx_cigar(exons, strand): ret is the returned value, exons the
\* caller's record list as the call leaves it (the records are modified in
\* place when strand == -1)
build_tx_cigar(exons, strand) ==
    IF Len(exons) = 0 THEN [ret |-> NoCigar, exons |-> exons]
    ELSE LET ex == IF strand = -1 THEN ReverseAll(exons) ELSE exons
         IN [ret |-> [none |-> FALSE, str |-> Join(TxCigarParts(ex, Len(ex)))],
             exons |-> ex]

\* ---------------------------------------------------------- IntervalMapper
\* (uta.tools.intervalmapper; modelled from its interface: an interval pair
\* per alignment token, M and X advance both axes, D and N the reference
\* axis only, I the target axis only)
RECURSIVE IntervalPairsFrom(_, _, _, _)
IntervalPairsFrom(toks, i, ref_pos, tgt_pos) ==
    IF i > Len(toks) THEN <<>>
    ELSE LET tok == toks[i]
             op  == tok[Len(tok)]
             n   == IntOf(SubSeq(tok, 1, Len(tok) - 1))
             rl  == IF op \in {"M", "X", "D", "N"} THEN n ELSE 0
             tl  == IF op \in {"M", "X", "I"} THEN n ELSE 0
         IN << [ref_s |-> ref_pos, ref_e |-> ref_pos + rl,
                tgt_s |-> tgt_pos, tgt_e |-> tgt_pos + tl] >>
            \o IntervalPairsFrom(toks, i + 1, ref_pos + rl, tgt_pos + tl)

cigar_to_intervalpairs(cigar) ==
    IntervalPairsFrom(cigarelem_re_findall(cigar), 1, 0, 0)

IntervalMapper_from_cigar(cigar) == cigar_to_intervalpairs(cigar)

tgt_len(im) == IF im = <<>> THEN 0 ELSE im[Len(im)].tgt_e

Max(a, b) == IF a >= b THEN a ELSE b

Min(a, b) == IF a <= b THEN a ELSE b

SetMax(S) == CHOOSE x \in S : \A y \in S : y <= x

SetMin(S) == CHOOSE x \in S : \A y \in S : x <= y

Ok(s, e) == [ok |-> TRUE, val |-> <<s, e>>, cls |-> "", msg |-> <<>>]

Raise(cls, msg) == [ok |-> FALSE, val |-> <<>>, cls |-> cls, msg |-> msg]

\* map_ref_to_tgt(start, end, max_extent=False)
map_ref_to_tgt(im, s, e) ==
    LET sil == {i \in 1..Len(im) : im[i].ref_s <= s /\ s <= im[i].ref_e}
        eil == {i \in 1..Len(im) : im[i].ref_s <= e /\ e <= im[i].ref_e}
    IN IF sil = {} \/ eil = {}
       THEN Raise("InvalidIntervalError", <<"interval out of bounds">>)
       ELSE LET si == SetMax(sil)
                ei == SetMin(eil)
            IN Ok(Max(im[si].tgt_s,
                      Min(im[si].tgt_e, im[si].tgt_s + (s - im[si].ref_s))),
                  Max(im[ei].tgt_s,
                      Min(im[ei].tgt_e, im[ei].tgt_e - (im[ei].ref_e - e))))

\* map_tgt_to_ref(start, end, max_extent=False)
map_tgt_to_ref(im, s, e) ==
    LET sil == {i \in 1..Len(im) : im[i].tgt_s <= s /\ s <= im[i].tgt_e}
        eil == {i \in 1..Len(im) : im[i].tgt_s <= e /\ e <= im[i].tgt_e}
    IN IF sil = {} \/ eil = {}
       THEN Raise("InvalidIntervalError", <<"interval out of bounds">>)
       ELSE LET si == SetMax(sil)
                ei == SetMin(eil)
            IN Ok(Max(im[si].ref_s,
                      Min(im[si].ref_e, im[si].ref_s + (s - im[si].tgt_s))),
                  Max(im[ei].ref_s,
                      Min(im[ei].ref_e, im[ei].ref_e - (im[ei].tgt_e - e))))

\* ------------------------------------------------------- TranscriptMapper
\* a strand of None (tx_info['strand'] is None)
NoneStrand == 0

\* a strand value that is an int other than 1 and -1 (strand_pm's '?')
OtherStrand == 2

NoMapper == [status |-> "none", strand |-> NoneStrand, cds_start_i |-> 0,
             cds_end_i |-> 0, gc_offset |-> 0, cigar |-> NoCigar, im |-> <<>>,
             err |-> Ok(0, 0)]

ConstructionMessage(r, a) ==
    <<"Couldn't build TranscriptMapper(ref=", r, ",ac=", a, ")">>

\* __init__: the mapper (or the exception that ended construction), the
\* exon records as construction leaves them and whether build_tx_cigar ran
TranscriptMapper_init(info, exons, a, r) ==
    IF info.none
    THEN [tm |-> [NoMapper EXCEPT !.status = "failed",
                     !.err = Raise("UTAError", ConstructionMessage(r, a))],
          recs |-> exons.recs, built |-> FALSE]
    ELSE IF exons.none
    THEN [tm |-> [NoMapper EXCEPT !.status = "failed",
                     !.err = Raise("TypeError",
                                   <<"object of type 'NoneType' has no len()">>)],
          recs |-> exons.recs, built |-> FALSE]
    ELSE IF Len(exons.recs) = 0
    THEN [tm |-> [NoMapper EXCEPT !.status = "failed",
                     !.err = Raise("UTAError", ConstructionMessage(r, a))],
          recs |-> exons.recs, built |-> FALSE]
    ELSE LET b == build_tx_cigar(exons.recs, info.strand)
         IN [tm |-> [status |-> "built",
                     strand |-> info.strand,
                     cds_start_i |-> info.cds_start_i,
                     cds_end_i |-> info.cds_end_i,
                     gc_offset |-> exons.recs[1].g_start_i,
                     cigar |-> b.ret,
                     im |-> IntervalMapper_from_cigar(b.ret.str),
                     err |-> Ok(0, 0)],
             recs |-> b.exons, built |-> TRUE]

FellThrough(where) ==
    Raise("UTAError", <<"Code fell through strand check; shouldn't ", where>>)

\* variant: the strand -1 result is shifted but not swapped
g_to_r_unreflected(m, gs, ge) ==
    LET f == map_ref_to_tgt(m.im, gs - m.gc_offset, ge - m.gc_offset)
    IN IF ~f.ok THEN f
       ELSE IF m.strand = 1 THEN Ok(f.val[1], f.val[2])
       ELSE IF m.strand = -1
            THEN Ok(tgt_len(m.im) - f.val[1], tgt_len(m.im) - f.val[2])
       ELSE FellThrough("ever get here.")

\* variant: any strand other than -1 is taken as +1
g_to_r_coerced(m, gs, ge) ==
    LET f == map_ref_to_tgt(m.im, gs - m.gc_offset, ge - m.gc_offset)
    IN IF ~f.ok THEN f
       ELSE IF m.strand = -1
            THEN Ok(tgt_len(m.im) - f.val[2], tgt_len(m.im) - f.val[1])
       ELSE Ok(f.val[1], f.val[2])

g_to_r(m, gs, ge) ==
    LET f == map_ref_to_tgt(m.im, gs - m.gc_offset, ge - m.gc_offset)
    IN IF ~f.ok THEN f
       ELSE IF m.strand = 1 THEN Ok(f.val[1], f.val[2])
       ELSE IF m.strand = -1
            THEN Ok(tgt_len(m.im) - f.val[2], tgt_len(m.im) - f.val[1])
       ELSE FellThrough("ever get here.")

\* variant: gc_offset is not added back
r_to_g_no_offset(m, rs, re) ==
    IF m.strand # 1 /\ m.strand # -1 THEN FellThrough("be here.")
    ELSE LET frs == IF m.strand = 1 THEN rs ELSE tgt_len(m.im) - re
             fre == IF m.strand = 1 THEN re ELSE tgt_len(m.im) - rs
             g   == map_tgt_to_ref(m.im, frs, fre)
         IN IF ~g.ok THEN g ELSE Ok(g.val[1], g.val[2])

r_to_g(m, rs, re) ==
    IF m.strand # 1 /\ m.strand # -1 THEN FellThrough("be here.")
    ELSE LET frs == IF m.strand = 1 THEN rs ELSE tgt_len(m.im) - re
             fre == IF m.strand = 1 THEN re ELSE tgt_len(m.im) - rs
             g   == map_tgt_to_ref(m.im, frs, fre)
         IN IF ~g.ok THEN g
            ELSE Ok(g.val[1] + m.gc_offset, g.val[2] + m.gc_offset)

\* variant: the end bound is taken relative to cds_end_i
r_to_c_from_cds_end(m, rs, re) == Ok(rs - m.cds_start_i, re - m.cds_end_i)

r_to_c(m, rs, re) == Ok(rs - m.cds_start_i, re - m.cds_start_i)

c_to_r(m, cs, ce) == Ok(cs + m.cds_start_i, ce + m.cds_start_i)

g_to_c(m, gs, ge) ==
    LET r == g_to_r(m, gs, ge)
    IN IF ~r.ok THEN r ELSE r_to_c(m, r.val[1], r.val[2])

c_to_g(m, cs, ce) ==
    LET r == c_to_r(m, cs, ce)
    IN IF ~r.ok THEN r ELSE r_to_g(m, r.val[1], r.val[2])

\* ------------------------------------------------------------------ inputs
Tok(n, op) == Str(n) \o <<op>>

Exon(o, gs, ge, c) ==
    [ord |-> o, g_start_i |-> gs, g_end_i |-> ge, g_cigar |-> c]

\* exon records the data provider holds, in genomic order
ExonPool ==
    << Exon(1, 100, 150, Tok(50, "M")),
       Exon(1, 100, 150, Tok(10, "M") \o Tok(2, "D") \o Tok(38, "M")),
       Exon(2, 150, 170, Tok(20, "M")),
       Exon(2, 200, 260, Tok(60, "M")),
       Exon(2, 200, 260, Tok(20, "M") \o Tok(5, "I") \o Tok(40, "M")),
       Exon(2, 200, 210, <<"5", "S">> \o Tok(10, "M")) >>

\* the strictly increasing index lists of length n over 1..k
RECURSIVE Picks(_, _)
Picks(n, k) ==
    IF n = 0 THEN {<<>>}
    ELSE UNION {{Append(p, j) : j \in (IF p = <<>> THEN 1 ELSE p[Len(p)] + 1)..k}
                : p \in Picks(n - 1, k)}

ExonLists ==
    UNION {{[i \in 1..n |-> ExonPool[p[i]]] : p \in Picks(n, Len(ExonPool))}
           : n \in 0..MaxExons}

NoInfo == [none |-> TRUE, strand |-> NoneStrand, cds_start_i |-> 0, cds_end_i |-> 0]

Infos ==
    {NoInfo} \cup
    {[none |-> FALSE, strand |-> s, cds_start_i |-> c, cds_end_i |-> c + 30]
        : s \in {1, -1, NoneStrand, OtherStrand}, c \in {0, 10}}

ExonAnswers ==
    {[none |-> TRUE, recs |-> <<>>]} \cup {[none |-> FALSE, recs |-> l] : l \in ExonLists}

Requests == {<<"NM_182763.2", "GRCh37.p10">>, <<"NM_000051.3", "GRCh38">>}

GenomicPos == {100, 150, 200, 230}

RnaPos == {0, 50, 110}

CdsPos == {0, 40}

NoCall == [op |-> "none", args |-> <<0, 0>>, out |-> Ok(0, 0)]

\* ----------------------------------------------------------- state machine
Init ==
    /\ \E rq \in Requests : ac = rq[1] /\ ref = rq[2]
    /\ db_info \in Infos
    /\ db_exons \in ExonAnswers
    /\ tm = NoMapper
    /\ builds = <<>>
    /\ last = NoCall

BuildRecord(strand, before, b) ==
    [strand |-> strand, before |-> before, after |-> b.exons, ret |-> b.ret]

\* tm = TranscriptMapper(db, ac, ref)
Construct ==
    /\ tm.status = "none"
    /\ LET c == TranscriptMapper_init(db_info, db_exons, ac, ref)
       IN /\ tm' = c.tm
          /\ db_exons' = [db_exons EXCEPT !.recs = c.recs]
          /\ builds' = IF c.built
                       THEN Append(builds,
                                   BuildRecord(db_info.strand, db_exons.recs,
                                               build_tx_cigar(db_exons.recs,
                                                              db_info.strand)))
                       ELSE builds
    /\ UNCHANGED <<ac, ref, db_info, last>>

\* variant: the call rebases the mapper, leaving gc_offset at 0
Called_rebasing(op, a, b, out) ==
    /\ tm.status = "built"
    /\ last' = [op |-> op, args |-> <<a, b>>, out |-> out]
    /\ tm' = [tm EXCEPT !.gc_offset = 0]
    /\ UNCHANGED <<ac, ref, db_info, db_exons, builds>>

\* a conversion call on the built mapper: its arguments and what it returned
\* or raised are recorded, nothing else is assigned
Called(op, a, b, out) ==
    /\ tm.status = "built"
    /\ last' = [op |-> op, args |-> <<a, b>>, out |-> out]
    /\ UNCHANGED <<ac, ref, db_info, db_exons, tm, builds>>

Call_g_to_r(gs, ge) == Called("g_to_r", gs, ge, g_to_r(tm, gs, ge))

Call_r_to_g(rs, re) == Called("r_to_g", rs, re, r_to_g(tm, rs, re))

Call_r_to_c(rs, re) == Called("r_to_c", rs, re, r_to_c(tm, rs, re))

Call_c_to_r(cs, ce) == Called("c_to_r", cs, ce, c_to_r(tm, cs, ce))

Call_g_to_c(gs, ge) == Called("g_to_c", gs, ge, g_to_c(tm, gs, ge))

Call_c_to_g(cs, ce) == Called("c_to_g", cs, ce, c_to_g(tm, cs, ce))

Convert ==
    \/ \E gs \in GenomicPos, ge \in GenomicPos : Call_g_to_r(gs, ge)
    \/ \E rs \in RnaPos, re \in RnaPos : Call_r_to_g(rs, re)
    \/ \E rs \in RnaPos, re \in RnaPos : Call_r_to_c(rs, re)
    \/ \E cs \in CdsPos, ce \in CdsPos : Call_c_to_r(cs, ce)
    \/ \E gs \in GenomicPos, ge \in GenomicPos : Call_g_to_c(gs, ge)
    \/ \E cs \in CdsPos, ce \in CdsPos : Call_c_to_g(cs, ce)

Next ==
    \/ Construct
    \/ Convert

Spec == Init /\ [][Next]_vars

\* ------------------------------------- build_tx_cigar on a shared record list
\* The record list one get_tx_exons answer holds, and the callers that pass
\* it to build_tx_cigar one after the other.
InitBuild ==
    /\ \E rq \in Requests : ac = rq[1] /\ ref = rq[2]
    /\ db_info = NoInfo
    /\ db_exons \in {x \in ExonAnswers : ~x.none}
    /\ tm = NoMapper
    /\ builds = <<>>
    /\ last = NoCall

\* build_tx_cigar(exons, strand) on the shared record list
CallBuild(strand) ==
    /\ Len(builds) < MaxBuilds
    /\ LET b == build_tx_cigar(db_exons.recs, strand)
       IN /\ db_exons' = [db_exons EXCEPT !.recs = b.exons]
          /\ builds' = Append(builds, BuildRecord(strand, db_exons.recs, b))
    /\ UNCHANGED <<ac, ref, db_info, tm, last>>

NextBuild == \E s \in {1, -1, NoneStrand, OtherStrand} : CallBuild(s)

SpecBuild == InitBuild /\ [][NextBuild]_vars

\* ================================================================== claims
StrandOps == {"g_to_r", "r_to_g", "g_to_c", "c_to_g"}

Names(msg, x) == \E i \in 1..Len(msg) : msg[i] = x

\* every character of c belongs to a <length><op> token
ValidCigar(c) == Join(cigarelem_re_findall(c)) = c

OpsOf(c) == LET t == cigarelem_re_findall(c)
            IN {t[k][Len(t[k])] : k \in 1..Len(t)}

\* (gs, ge) lies within the genomic span of one exon record
WithinOneExon(recs, gs, ge) ==
    \E i \in 1..Len(recs) : recs[i].g_start_i <= gs /\ ge <= recs[i].g_end_i

StrictlyInsideOneExon(recs, g) ==
    \E i \in 1..Len(recs) : recs[i].g_start_i < g /\ g < recs[i].g_end_i

\* C1: whenever the provider answers with no transcript info, no exon list
\* or an empty exon list, construction ends in the construction error
\* (UTAError "Couldn't build TranscriptMapper") whose message names the
\* accession and the reference, and no mapper is built.
C1_ConstructionError ==
    (tm.status # "none"
     /\ (db_info.none \/ db_exons.none \/ Len(db_exons.recs) = 0))
    => /\ tm.status = "failed"
       /\ tm.err.cls = "UTAError"
       /\ Names(tm.err.msg, ac)
       /\ Names(tm.err.msg, ref)

\* C2: construction completes only for a non-empty exon list and a strand
\* of +1 or -1; with any other strand it fails, so every constructed mapper
\* has strand in {+1, -1}.
C2_ConstructedStrand ==
    /\ tm.status = "built"
       => tm.strand \in {1, -1} /\ Len(db_exons.recs) > 0
    /\ (tm.status # "none" /\ ~db_info.none /\ db_info.strand \notin {1, -1})
       => tm.status = "failed"

\* the intron + exon pairs from exon i on, as the claim C3 states them
RECURSIVE C3_Rest(_, _)
C3_Rest(e, i) ==
    IF i > Len(e) THEN <<>>
    ELSE Str(e[i].g_start_i - e[i - 1].g_end_i) \o <<"N">> \o e[i].g_cigar
         \o C3_Rest(e, i + 1)

C3_Expected(e) == e[1].g_cigar \o C3_Rest(e, 2)

C3_IntronCount(str) ==
    LET t == cigarelem_re_findall(str)
    IN Cardinality({k \in 1..Len(t) : t[k][Len(t[k])] = "N"})

\* C3: a build_tx_cigar call with strand +1 on a non-empty list e returns
\* e[0].g_cigar followed, for each later exon in input order, by the intron
\* token <g_start_i - previous g_end_i>N and that exon's g_cigar; the result
\* has exactly n-1 intron tokens, and spans [100,150), [200,260) give 50N
\* between the two exon strings.
C3_IntronGaps ==
    \A k \in 1..Len(builds) :
        (builds[k].strand = 1 /\ Len(builds[k].before) > 0)
        => /\ ~builds[k].ret.none
           /\ builds[k].ret.str = C3_Expected(builds[k].before)
           /\ C3_IntronCount(builds[k].ret.str) = Len(builds[k].before) - 1
           /\ builds[k].before = <<ExonPool[1], ExonPool[4]>>
              => builds[k].ret.str
                 = <<"5", "0", "M", "5", "0", "N", "6", "0", "M">>

C3_Witness ==
    \E k \in 1..Len(builds) :
        /\ builds[k].strand = 1
        /\ Len(builds[k].before) = 2
        /\ builds[k].before[1].g_end_i = 150
        /\ builds[k].before[2].g_start_i = 200
        /\ builds[k].ret.str = <<"5", "0", "M", "5", "0", "N", "6", "0", "M">>

\* the case of C4: g_to_r was called on a strand +1 or -1 mapper whose
\* exon strings hold only valid tokens and whose alignment has only M and N
\* tokens, with gs <= ge within one exon
C4_Case ==
    /\ last.op = "g_to_r"
    /\ tm.strand \in {1, -1}
    /\ \A i \in 1..Len(builds[1].before) :
          ValidCigar(builds[1].before[i].g_cigar)
    /\ ValidCigar(tm.cigar.str)
    /\ OpsOf(tm.cigar.str) \subseteq {"M", "N"}
    /\ last.args[1] <= last.args[2]
    /\ WithinOneExon(db_exons.recs, last.args[1], last.args[2])

C4_RoundTrips ==
    /\ last.out.ok
    /\ r_to_g(tm, last.out.val[1], last.out.val[2])
       = Ok(last.args[1], last.args[2])

C5_CdsLinearity ==
    /\ last.op = "r_to_c"
       => /\ last.out = Ok(last.args[1] - tm.cds_start_i,
                           last.args[2] - tm.cds_start_i)
          /\ c_to_r(tm, last.out.val[1], last.out.val[2])
             = Ok(last.args[1], last.args[2])
          /\ \A s \in {1, -1, NoneStrand, OtherStrand} :
                r_to_c([tm EXCEPT !.strand = s, !.im = <<>>],
                       last.args[1], last.args[2]) = last.out
    /\ last.op = "c_to_r"
       => /\ last.out = Ok(last.args[1] + tm.cds_start_i,
                           last.args[2] + tm.cds_start_i)
          /\ \A s \in {1, -1, NoneStrand, OtherStrand} :
                c_to_r([tm EXCEPT !.strand = s, !.im = <<>>],
                       last.args[1], last.args[2]) = last.out

C5_Witness ==
    /\ last.op = "r_to_c"
    /\ tm.cds_start_i = 10
    /\ tm.strand = NoneStrand
    /\ last.args = <<0, 50>>
    /\ last.out = Ok(-10, 40)

\* C6: on a strand -1 mapper, g_to_r(gs, ge) = (L - re, L - rs) where
\* (rs, re) is the no-extension reference-to-target mapping of
\* (gs - gc_offset, ge - gc_offset), which is what the same mapper with
\* strand +1 returns, L is the target length, and the result has
\* start <= end whenever rs <= re.
C6_StrandSymmetry ==
    (last.op = "g_to_r" /\ tm.strand = -1)
    => LET f == map_ref_to_tgt(tm.im, last.args[1] - tm.gc_offset,
                               last.args[2] - tm.gc_offset)
           L == tgt_len(tm.im)
           plus == g_to_r([tm EXCEPT !.strand = 1], last.args[1], last.args[2])
       IN /\ last.out.ok = f.ok
          /\ f.ok => /\ plus = Ok(f.val[1], f.val[2])
                     /\ last.out = Ok(L - f.val[2], L - f.val[1])
                     /\ f.val[1] <= f.val[2]
                        => last.out.val[1] <= last.out.val[2]

C6_Witness ==
    /\ last.op = "g_to_r"
    /\ tm.strand = -1
    /\ Len(db_exons.recs) = 2
    /\ tgt_len(tm.im) = 110
    /\ last.args = <<100, 150>>
    /\ last.out = Ok(60, 110)

\* the case of C7: a strand-dependent conversion was called on a mapper
\* whose strand is neither +1 nor -1
C7_Case == last.op \in StrandOps /\ tm.strand \notin {1, -1}

C8_Immutable ==
    [][tm.status = "built"
       => /\ tm.gc_offset = db_exons.recs[1].g_start_i
          /\ tm' = tm
          /\ db_exons' = db_exons
          /\ tm'.gc_offset = db_exons'.recs[1].g_start_i]_vars

C8_Witness ==
    /\ tm.status = "built"
    /\ tm.strand = -1
    /\ Len(db_exons.recs) = 2
    /\ tm.gc_offset = 100
    /\ last.op = "r_to_g"
    /\ ~last.out.ok

\* C9: a build_tx_cigar call with strand -1 leaves the list as long as it
\* was and replaces every record's g_cigar by its tokens in reverse order,
\* each token as it was, every other field unchanged; a call with any other
\* strand leaves every record as it was.
C9_ReversedInPlace ==
    \A k \in 1..Len(builds) :
        LET b == builds[k]
        IN /\ Len(b.after) = Len(b.before)
           /\ b.strand # -1 => b.after = b.before
           /\ b.strand = -1
              => \A i \in 1..Len(b.before) :
                    LET old == cigarelem_re_findall(b.before[i].g_cigar)
                        new == cigarelem_re_findall(b.after[i].g_cigar)
                    IN /\ Len(new) = Len(old)
                       /\ \A j \in 1..Len(old) : new[j] = old[Len(old) + 1 - j]
                       /\ ValidCigar(b.after[i].g_cigar)
                       /\ b.after[i].ord = b.before[i].ord
                       /\ b.after[i].g_start_i = b.before[i].g_start_i
                       /\ b.after[i].g_end_i = b.before[i].g_end_i

C9_Witness ==
    \E k \in 1..Len(builds) :
        /\ builds[k].strand = -1
        /\ Len(builds[k].before) = 2
        /\ builds[k].before[2].g_cigar
           = <<"2", "0", "M", "5", "I", "4", "0", "M">>
        /\ builds[k].after[2].g_cigar
           = <<"4", "0", "M", "5", "I", "2", "0", "M">>
        /\ db_exons.recs = builds[k].after

C10_Palindromic(c) ==
    LET t == cigarelem_re_findall(c)
    IN \A j \in 1..Len(t) : t[j] = t[Len(t) + 1 - j]

\* the case of C10: calls k and k+1 both have strand -1 and the records
\* before call k hold only valid tokens
C10_Case(k) ==
    /\ builds[k].strand = -1
    /\ builds[k + 1].strand = -1
    /\ Len(builds[k].before) > 0
    /\ \A i \in 1..Len(builds[k].before) :
          ValidCigar(builds[k].before[i].g_cigar)

\* C10: two successive strand -1 calls of build_tx_cigar on the same
\* records of valid tokens restore every g_cigar, the second call returns
\* what a strand +1 call on the original records returns, and that differs
\* from the first call's string unless every exon string is
\* token-palindromic.
C10_SecondCallUndoes ==
    \A k \in 1..(Len(builds) - 1) :
        C10_Case(k)
        => /\ builds[k + 1].after = builds[k].before
           /\ db_exons.recs = builds[k].before \/ Len(builds) > k + 1
           /\ builds[k + 1].ret.str = C3_Expected(builds[k].before)
           /\ (builds[k + 1].ret = builds[k].ret)
              <=> \A i \in 1..Len(builds[k].before) :
                     C10_Palindromic(builds[k].before[i].g_cigar)

C10_Witness ==
    /\ Len(builds) >= 2
    /\ C10_Case(1)
    /\ Len(builds[1].before) = 2
    /\ builds[2].ret # builds[1].ret
    /\ builds[1].ret.str
       = <<"3", "8", "M", "2", "D", "1", "0", "M", "5", "0", "N",
           "4", "0", "M", "5", "I", "2", "0", "M">>
    /\ builds[2].ret.str
       = <<"1", "0", "M", "2", "D", "3", "8", "M", "5", "0", "N",
           "2", "0", "M", "5", "I", "4", "0", "M">>

====
